---- MODULE Spec2Model ----
(***************************************************************************)
(* chart.py: a script that synthesizes purchase amounts for three customer *)
(* segments and renders one annotated box/strip plot to chart.png.         *)
(*                                                                         *)
(* Units.  Amounts before rounding are integers in mills (1/1000 USD);     *)
(* stored purchase_amount values and medians are integers in cents.        *)
(* Lengths on the figure are in 1/100 inch.                                *)
(***************************************************************************)
EXTENDS Integers, Sequences, FiniteSets, TLC

VARIABLES
    pc,          \* the statement the script executes next
    segIdx,      \* position of the outer loop in segments.items()   (line 24)
    samples,     \* the current segment's array of amounts, mills    (lines 26, 29)
    heavy_tail,  \* the current segment's array of 0/1 marks         (line 28)
    amtIdx,      \* position of the inner loop in samples            (line 30)
    rows,        \* the list of records built by the loops           (lines 23, 31)
    df,          \* the DataFrame made from rows                     (line 33)
    fig,         \* the pyplot figure: "none", "open" or "closed"    (lines 36, 81)
    boxOrder,    \* segment labels by x position of their box        (line 39)
    sub,         \* row indices picked by df.sample                  (line 54)
    artists,     \* what has been drawn on the axes, in drawing order
    ylim,        \* upper y limit, in cents / 4000                   (line 69)
    medians,     \* the medians Series: <<[segment, median]>>        (line 72)
    annIdx,      \* position of the annotation loop                  (line 73)
    texts,       \* the annotations drawn by ax.text                 (line 75)
    image,       \* pixel size of chart.png once written             (line 80)
    nWrites      \* how many times chart.png has been written        (line 80)

vars == <<pc, segIdx, samples, heavy_tail, amtIdx, rows, df, fig, boxOrder,
          sub, artists, ylim, medians, annIdx, texts, image, nWrites>>

----------------------------------------------------------------------------
(* Configuration *)

\* Customers per segment.  The script uses 550, 450 and 200; the model keeps
\* the three blocks and scales their sizes down.
NLow == 2
NMid == 1
NHigh == 1

\* segments, in the insertion order of the dict literal.  draws stands for
\* (mu, sigma): the values, in mills, that rng.lognormal may return for the
\* segment.  Every positive real is in the support; the model takes the
\* distribution's median exp(mu) (20.086, 66.686 and 148.413 USD) and, for the
\* segment with the widest sigma, one draw below half a cent.
Segments ==
    << [name |-> "Low value",  n |-> NLow,  draws |-> {20086}],
       [name |-> "Mid value",  n |-> NMid,  draws |-> {66686}],
       [name |-> "High value", n |-> NHigh, draws |-> {2, 148413}] >>

Labels == {Segments[i].name : i \in 1..Len(Segments)}

\* rng.choice([0, 1], ...): the heavy-tail mark.
TailMarks == {0, 1}

\* rng.uniform(3.0, 10.0): the two ends of the interval.
ULow == 3
UHigh == 10
UDraws == {ULow, UHigh}

\* df.sample(frac=0.25): the fraction, in percent.
FracPct == 25

\* plt.figure(figsize=(8, 8)) and savefig(dpi=64).
FigInches == 8
Dpi == 64
\* savefig's padding around a tight bounding box (matplotlib's default
\* pad_inches of 0.1 inch), in 1/100 inch.
PadInches == 10

\* Extents, in 1/100 inch, that the tight bounding box of the drawn artists
\* may have in one direction.  It depends on what was drawn: 746 is content
\* that tight_layout keeps 1.08 font sizes (0.27 in at the 18 pt of the "talk"
\* context) inside each edge of the figure; the other value is content that
\* fills the figure less savefig's padding.
TightExtents == {746, FigInches * 100 - 2 * PadInches}

----------------------------------------------------------------------------
(* Pure helpers *)

\* round(x / unit) with ties to the even neighbour, as Python's and numpy's
\* round do.
RoundHalfEven(x, unit) ==
    LET q == x \div unit
        r == x % unit
    IN  IF 2 * r < unit THEN q
        ELSE IF 2 * r > unit THEN q + 1
        ELSE IF q % 2 = 0 THEN q ELSE q + 1

\* Variant of Round2 that truncates to the cent below.
Round2Floor(mills) == mills \div 10

\* round(amt, 2): mills to cents.
Round2(mills) == RoundHalfEven(mills, 10)

\* Variant of Inflate that ignores the heavy-tail mark.
InflateAll(s, h, u) == s * (1 + u)

\* samples * (1 + heavy_tail * rng.uniform(3.0, 10.0)), one element.
Inflate(s, h, u) == s * (1 + h * u)

\* Variant of DrawSize that uses the first segment's count for every segment.
DrawSizeFirst(p) == Segments[1].n

\* size=params["n"]
DrawSize(p) == p.n

\* Variant of AddRow that inserts at the front.
AddRowFront(rs, r) == <<r>> \o rs

\* rows.append(...)
AddRow(rs, r) == Append(rs, r)

\* The record appended for one amount.
Record(seg, amt) == [segment |-> seg, purchase_amount |-> Round2(amt)]

\* Variant of Program with plt.close() placed before plt.savefig().
ProgramCloseBeforeSave ==
    << "dataframe", "figure", "boxplot", "sample", "stripplot", "labels",
       "ticks", "set_ylim", "medians", "annotate", "tight_layout", "close",
       "savefig", "done" >>

\* The straight-line part of the script after the generation loops, one label
\* per statement in source order.
Program ==
    << "dataframe", "figure", "boxplot", "sample", "stripplot", "labels",
       "ticks", "set_ylim", "medians", "annotate", "tight_layout", "savefig",
       "close", "done" >>

\* The statement that follows statement p.
NextPc(p) ==
    LET i == CHOOSE k \in 1..Len(Program) : Program[k] = p
    IN  Program[i + 1]

\* Ascending sort of a sequence of integers.
RECURSIVE SortAsc(_)
SortAsc(s) ==
    IF s = <<>> THEN <<>>
    ELSE LET i == CHOOSE k \in 1..Len(s) : \A j \in 1..Len(s) : s[k] <= s[j]
         IN  <<s[i]>> \o SortAsc(SubSeq(s, 1, i - 1) \o SubSeq(s, i + 1, Len(s)))

\* The purchase_amount column of a frame.
AmountsOf(d) == [i \in 1..Len(d) |-> d[i].purchase_amount]

\* Variant of GroupRows that ignores the group key.
GroupRowsAll(d, seg) == d

\* The rows of one group of df.groupby("segment").
GroupRows(d, seg) == SelectSeq(d, LAMBDA r : r.segment = seg)

\* Series.median() of a non-empty sorted column followed by .round(2), cents:
\* the middle value, or the mean of the two middle values rounded to a cent.
Median(s) ==
    LET n == Len(s)
    IN  IF n % 2 = 1 THEN s[(n + 1) \div 2]
        ELSE RoundHalfEven(s[n \div 2] + s[n \div 2 + 1], 2)

\* Code point of the first character of each label: the labels differ there,
\* so it decides their lexicographic order.
Ord == ("High value" :> 72) @@ ("Low value" :> 76) @@ ("Mid value" :> 77)

\* The labels of a set in sorted (lexicographic) order.
RECURSIVE SortedLabels(_)
SortedLabels(S) ==
    IF S = {} THEN <<>>
    ELSE LET m == CHOOSE x \in S : \A y \in S : Ord[x] <= Ord[y]
         IN  <<m>> \o SortedLabels(S \ {m})

\* The labels of a frame in order of first appearance.
RECURSIVE FirstAppearance(_, _)
FirstAppearance(d, seen) ==
    IF d = <<>> THEN <<>>
    ELSE IF Head(d).segment \in seen THEN FirstAppearance(Tail(d), seen)
    ELSE <<Head(d).segment>> \o FirstAppearance(Tail(d), seen \cup {Head(d).segment})

\* seaborn's order of the categories of a string column: as they appear.
CategoricalOrder(d) == FirstAppearance(d, {})

\* df.groupby("segment")["purchase_amount"].median().round(2): one entry per
\* label present, the index sorted by label.
GroupMedians(d) ==
    LET keys == SortedLabels({d[i].segment : i \in 1..Len(d)})
    IN  [i \in 1..Len(keys) |->
            [segment |-> keys[i],
             median  |-> Median(SortAsc(AmountsOf(GroupRows(d, keys[i]))))]]

\* Series.quantile(0.995) * 1.05 by linear interpolation between the two
\* neighbouring order statistics.  0.995 = 199/200 and 1.05 = 21/20; the
\* result is in cents / (QuantileDen * YlimDen) = cents / 4000.
QuantileNum == 199
QuantileDen == 200
YlimNum == 21
YlimDen == 20
YlimTop(d) ==
    LET s == SortAsc(AmountsOf(d))
        n == Len(s)
        pos == QuantileNum * (n - 1)
        lo == pos \div QuantileDen + 1
        hi == IF lo < n THEN lo + 1 ELSE n
        frac == pos % QuantileDen
    IN  IF n = 0 THEN 0
        ELSE (s[lo] * QuantileDen + frac * (s[hi] - s[lo])) * YlimNum

\* The number of rows df.sample(frac=0.25) takes: round(frac * len(df)).
SampleSize(n) == RoundHalfEven(n * FracPct, 100)

\* The index sequences df.sample may return: k distinct rows, in any order.
SampleIndices(n, k) ==
    {s \in [1..k -> 1..n] : \A i, j \in 1..k : i # j => s[i] # s[j]}

\* Variant of FrameAfterSample in which sampling replaces the frame's rows.
FrameSampledInPlace(d, s) == [i \in 1..Len(s) |-> d[s[i]]]

\* df after df.sample(...) has returned rows s: sample builds a new frame and
\* leaves df as it was.
FrameAfterSample(d, s) == d

\* ax.text(i, median_val * 1.02, f"Median: ${median_val:,.2f}"): x is the
\* 0-based position in medians.index, y is in cents / 100, the label shows
\* the median's dollars and cents.
TextLiftPct == 102
Annotation(i, m) ==
    [x |-> i, y |-> m.median * TextLiftPct, segment |-> m.segment,
     label |-> [dollars |-> m.median \div 100, cents |-> m.median % 100]]

\* Pixels of an image whose tight bounding box has the given extent.
Pixels(extent) == ((extent + 2 * PadInches) * Dpi) \div 100

----------------------------------------------------------------------------
(* The script *)

\* The state when the first loop iteration starts (after lines 8-23).
Init ==
    /\ pc = "lognormal"
    /\ segIdx = 1
    /\ samples = <<>>
    /\ heavy_tail = <<>>
    /\ amtIdx = 0
    /\ rows = <<>>
    /\ df = <<>>
    /\ fig = "none"
    /\ boxOrder = <<>>
    /\ sub = <<>>
    /\ artists = <<>>
    /\ ylim = 0
    /\ medians = <<>>
    /\ annIdx = 0
    /\ texts = <<>>
    /\ image = <<>>
    /\ nWrites = 0

renderVars == <<df, fig, boxOrder, sub, artists, ylim, medians, annIdx, texts,
                image, nWrites>>

\* Line 26: samples = rng.lognormal(mean, sigma, size=params["n"])
Lognormal ==
    /\ pc = "lognormal"
    /\ \E v \in [1..DrawSize(Segments[segIdx]) -> Segments[segIdx].draws] :
          samples' = v
    /\ pc' = "choice"
    /\ UNCHANGED <<segIdx, heavy_tail, amtIdx, rows, renderVars>>

\* Line 28: heavy_tail = rng.choice([0, 1], size=params["n"], p=[0.97, 0.03])
Choice ==
    /\ pc = "choice"
    /\ \E h \in [1..DrawSize(Segments[segIdx]) -> TailMarks] : heavy_tail' = h
    /\ pc' = "inflate"
    /\ UNCHANGED <<segIdx, samples, amtIdx, rows, renderVars>>

\* Line 29: samples = samples * (1 + heavy_tail * rng.uniform(3.0, 10.0, size))
InflateSamples ==
    /\ pc = "inflate"
    /\ \E u \in [1..DrawSize(Segments[segIdx]) -> UDraws] :
          samples' = [i \in 1..Len(samples) |->
                         Inflate(samples[i], heavy_tail[i], u[i])]
    /\ amtIdx' = 1
    /\ pc' = "append"
    /\ UNCHANGED <<segIdx, heavy_tail, rows, renderVars>>

\* Lines 30-31: one iteration of "for amt in samples: rows.append(...)"
AppendRow ==
    /\ pc = "append"
    /\ amtIdx <= Len(samples)
    /\ rows' = AddRow(rows, Record(Segments[segIdx].name, samples[amtIdx]))
    /\ amtIdx' = amtIdx + 1
    /\ UNCHANGED <<pc, segIdx, samples, heavy_tail, renderVars>>

\* Lines 30 and 24: the inner loop is exhausted; the outer loop moves to the
\* next segment or ends.
EndSegment ==
    /\ pc = "append"
    /\ amtIdx > Len(samples)
    /\ IF segIdx < Len(Segments)
       THEN /\ segIdx' = segIdx + 1
            /\ pc' = "lognormal"
       ELSE /\ segIdx' = segIdx
            /\ pc' = Program[1]
    /\ UNCHANGED <<samples, heavy_tail, amtIdx, rows, renderVars>>

synthVars == <<segIdx, samples, heavy_tail, amtIdx, rows>>

\* Line 33: df = pd.DataFrame(rows)
DataFrame ==
    /\ pc = "dataframe"
    /\ df' = rows
    /\ pc' = NextPc(pc)
    /\ UNCHANGED <<synthVars, fig, boxOrder, sub, artists, ylim, medians,
                   annIdx, texts, image, nWrites>>

\* Line 36: plt.figure(figsize=(8, 8))
Figure ==
    /\ pc = "figure"
    /\ fig' = "open"
    /\ pc' = NextPc(pc)
    /\ UNCHANGED <<synthVars, df, boxOrder, sub, artists, ylim, medians,
                   annIdx, texts, image, nWrites>>

\* Lines 39-48: ax = sns.boxplot(x="segment", y="purchase_amount", data=df, ...)
Boxplot ==
    /\ pc = "boxplot"
    /\ boxOrder' = CategoricalOrder(df)
    /\ artists' = Append(artists, "boxes")
    /\ pc' = NextPc(pc)
    /\ UNCHANGED <<synthVars, df, fig, sub, ylim, medians, annIdx, texts,
                   image, nWrites>>

\* Line 54: the argument df.sample(frac=0.25, random_state=1) is evaluated.
Sample ==
    /\ pc = "sample"
    /\ sub' \in SampleIndices(Len(df), SampleSize(Len(df)))
    /\ df' = FrameAfterSample(df, sub')
    /\ pc' = NextPc(pc)
    /\ UNCHANGED <<synthVars, fig, boxOrder, artists, ylim, medians,
                   annIdx, texts, image, nWrites>>

\* Lines 51-59: sns.stripplot draws the subsample, which is then dropped.
Stripplot ==
    /\ pc = "stripplot"
    /\ artists' = Append(artists, "strip")
    /\ sub' = <<>>
    /\ pc' = NextPc(pc)
    /\ UNCHANGED <<synthVars, df, fig, boxOrder, ylim, medians, annIdx,
                   texts, image, nWrites>>

\* Lines 62-64: title and axis labels.
SetLabels ==
    /\ pc = "labels"
    /\ artists' = artists \o <<"title", "xlabel", "ylabel">>
    /\ pc' = NextPc(pc)
    /\ UNCHANGED <<synthVars, df, fig, boxOrder, sub, ylim, medians, annIdx,
                   texts, image, nWrites>>

\* Lines 67-68: tick label sizes.
TickParams ==
    /\ pc = "ticks"
    /\ artists' = Append(artists, "ticks")
    /\ pc' = NextPc(pc)
    /\ UNCHANGED <<synthVars, df, fig, boxOrder, sub, ylim, medians, annIdx,
                   texts, image, nWrites>>

\* Line 69: ax.set_ylim(0, df["purchase_amount"].quantile(0.995) * 1.05)
SetYlim ==
    /\ pc = "set_ylim"
    /\ ylim' = YlimTop(df)
    /\ pc' = NextPc(pc)
    /\ UNCHANGED <<synthVars, df, fig, boxOrder, sub, artists, medians,
                   annIdx, texts, image, nWrites>>

\* Line 72: medians = df.groupby("segment")["purchase_amount"].median().round(2)
Medians ==
    /\ pc = "medians"
    /\ medians' = GroupMedians(df)
    /\ annIdx' = 0
    /\ pc' = NextPc(pc)
    /\ UNCHANGED <<synthVars, df, fig, boxOrder, sub, artists, ylim, texts,
                   image, nWrites>>

\* Lines 73-75: one iteration of "for i, seg in enumerate(medians.index)"
Annotate ==
    /\ pc = "annotate"
    /\ annIdx < Len(medians)
    /\ texts' = Append(texts, Annotation(annIdx, medians[annIdx + 1]))
    /\ annIdx' = annIdx + 1
    /\ UNCHANGED <<pc, synthVars, df, fig, boxOrder, sub, artists, ylim,
                   medians, image, nWrites>>

\* Line 73: the annotation loop is exhausted.
EndAnnotate ==
    /\ pc = "annotate"
    /\ annIdx >= Len(medians)
    /\ pc' = NextPc(pc)
    /\ UNCHANGED <<synthVars, renderVars>>

\* Line 77: plt.tight_layout()
TightLayout ==
    /\ pc = "tight_layout"
    /\ artists' = Append(artists, "layout")
    /\ pc' = NextPc(pc)
    /\ UNCHANGED <<synthVars, df, fig, boxOrder, sub, ylim, medians, annIdx,
                   texts, image, nWrites>>

\* Line 80: plt.savefig("chart.png", dpi=64, bbox_inches="tight") writes the
\* file, cropped to the tight bounding box of what was drawn.
Savefig ==
    /\ pc = "savefig"
    /\ \E w, h \in TightExtents : image' = <<Pixels(w), Pixels(h)>>
    /\ nWrites' = nWrites + 1
    /\ pc' = NextPc(pc)
    /\ UNCHANGED <<synthVars, df, fig, boxOrder, sub, artists, ylim, medians,
                   annIdx, texts>>

\* Line 80: the file cannot be written; the unhandled error ends the process.
SavefigFails ==
    /\ pc = "savefig"
    /\ pc' = "aborted"
    /\ UNCHANGED <<synthVars, renderVars>>

\* Line 81: plt.close()
Close ==
    /\ pc = "close"
    /\ fig' = "closed"
    /\ pc' = NextPc(pc)
    /\ UNCHANGED <<synthVars, df, boxOrder, sub, artists, ylim, medians,
                   annIdx, texts, image, nWrites>>

Next ==
    \/ Lognormal
    \/ Choice
    \/ InflateSamples
    \/ AppendRow
    \/ EndSegment
    \/ DataFrame
    \/ Figure
    \/ Boxplot
    \/ Sample
    \/ Stripplot
    \/ SetLabels
    \/ TickParams
    \/ SetYlim
    \/ Medians
    \/ Annotate
    \/ EndAnnotate
    \/ TightLayout
    \/ Savefig
    \/ SavefigFails
    \/ Close

Spec == Init /\ [][Next]_vars

----------------------------------------------------------------------------
(* Properties *)

Total == NLow + NMid + NHigh

\* The generation loops are over.
SynthDone == pc \notin {"lognormal", "choice", "inflate", "append"}

\* df has been created.
FrameMade == SynthDone /\ pc # "dataframe"

CountOf(d, seg) == Cardinality({i \in 1..Len(d) : d[i].segment = seg})

SegPos(seg) == CHOOSE i \in 1..Len(Segments) : Segments[i].name = seg

InBlockOrder(d) ==
    \A i, j \in 1..Len(d) :
        i < j => SegPos(d[i].segment) <= SegPos(d[j].segment)

\* C1: once generation is over, every segment has exactly its configured
\* number of records, every label is one of the three configured ones, and
\* the Dataset (rows, and df once made) has as many records as the counts sum to.
C1_SegmentCounts ==
    /\ SynthDone =>
          /\ \A i \in 1..Len(Segments) :
                CountOf(rows, Segments[i].name) = Segments[i].n
          /\ \A i \in 1..Len(rows) : rows[i].segment \in Labels
          /\ Len(rows) = Total
    /\ FrameMade =>
          /\ \A i \in 1..Len(Segments) :
                CountOf(df, Segments[i].name) = Segments[i].n
          /\ Len(df) = Total

C1_Witness ==
    /\ pc = "done"
    /\ Len(df) = Total
    /\ CountOf(df, "Low value") = NLow
    /\ CountOf(df, "Mid value") = NMid
    /\ CountOf(df, "High value") = NHigh

\* C2 as stated: every stored purchase_amount is strictly greater than 0.
C2_AllAmountsPositive ==
    \A i \in 1..Len(rows) : rows[i].purchase_amount > 0

\* The record appended for the j-th sample of the segment being appended.
RowOfSample(j) == rows[Len(rows) - (amtIdx - 1) + j]

\* C2 as amended: every stored purchase_amount is at least 0; the amount
\* before rounding is strictly positive, and the stored amount is strictly
\* positive exactly when the amount before rounding exceeds half a cent
\* (5 mills).
C2_AmountsNonNegative ==
    /\ \A i \in 1..Len(rows) : rows[i].purchase_amount >= 0
    /\ pc = "append" =>
          \A j \in 1..(amtIdx - 1) :
              /\ samples[j] > 0
              /\ RowOfSample(j).purchase_amount > 0 <=> samples[j] > 5

C2_Witness ==
    /\ pc = "append"
    /\ amtIdx > 1
    /\ samples[amtIdx - 1] > 0
    /\ samples[amtIdx - 1] <= 5
    /\ RowOfSample(amtIdx - 1).purchase_amount = 0

\* The median computed for a segment.
MedianOf(seg) ==
    LET k == CHOOSE i \in 1..Len(medians) : medians[i].segment = seg
    IN  medians[k].median

\* C4 as stated: every median annotation shows the median of its own segment
\* and sits at the x position of that segment's box.
C4_AnnotationAtOwnBox ==
    \A k \in 1..Len(texts) :
        LET t == texts[k]
        IN  /\ t.x + 1 \in 1..Len(boxOrder)
            /\ boxOrder[t.x + 1] = t.segment
            /\ t.label.dollars * 100 + t.label.cents = MedianOf(t.segment)

\* C5 as stated: the median computed for High value is strictly greater than
\* the one computed for Low value, whatever the draws.
C5_HighMedianAboveLow ==
    medians # <<>> => MedianOf("High value") > MedianOf("Low value")

\* Every High value amount of df is greater than every Low value amount.
HighAboveLow ==
    \A i, j \in 1..Len(df) :
        (df[i].segment = "High value" /\ df[j].segment = "Low value")
            => df[i].purchase_amount > df[j].purchase_amount

\* C5 as amended: the median computed for High value is strictly greater
\* than the one for Low value whenever every High value amount is greater
\* than every Low value amount.
C5_HighMedianAboveLowWhenSeparated ==
    (medians # <<>> /\ HighAboveLow)
        => MedianOf("High value") > MedianOf("Low value")

C5_Witness ==
    /\ medians # <<>>
    /\ HighAboveLow
    /\ MedianOf("High value") > MedianOf("Low value")

\* C6 as stated: the written image is always 512 x 512 pixels (figure size
\* times resolution).
C6_FixedImageSize ==
    image # <<>> => image = <<FigInches * Dpi, FigInches * Dpi>>

\* C7: at every moment rows (and df) are in segment-block order: no record
\* of an earlier-configured segment follows one of a later-configured segment.
C7_BlockOrder == InBlockOrder(rows) /\ InBlockOrder(df)

C7_Witness ==
    /\ pc = "done"
    /\ Len(df) = Total
    /\ df[1].segment = "Low value"
    /\ df[NLow + 1].segment = "Mid value"
    /\ df[Total].segment = "High value"

\* C8: the step that applies the heavy tail multiplies every marked sample
\* by 1 + u for some u in [3, 10] (so by 4 to 11) and leaves every unmarked
\* sample exactly as drawn.
C8_HeavyTailInflation ==
    [][pc = "inflate" =>
          /\ Len(samples') = Len(samples)
          /\ \A i \in 1..Len(samples) :
                /\ heavy_tail[i] = 1 =>
                      /\ \E u \in ULow..UHigh :
                            samples'[i] = samples[i] * (1 + u)
                      /\ samples'[i] >= (1 + ULow) * samples[i]
                      /\ samples'[i] <= (1 + UHigh) * samples[i]
                /\ heavy_tail[i] = 0 => samples'[i] = samples[i]]_vars

C8_Witness ==
    /\ pc = "append"
    /\ amtIdx = 1
    /\ \E i, j \in 1..Len(samples) :
          /\ heavy_tail[i] = 1
          /\ samples[i] \notin Segments[segIdx].draws
          /\ heavy_tail[j] = 0
          /\ samples[j] \in Segments[segIdx].draws

\* Everything the script draws before saving is on the axes.
AllDrawn ==
    /\ artists = <<"boxes", "strip", "title", "xlabel", "ylabel", "ticks",
                   "layout">>
    /\ medians # <<>>
    /\ Len(texts) = Len(medians)

\* The part of C9 that concerns the order of the steps.
StepOrder ==
    /\ (fig # "none" \/ artists # <<>>) => (FrameMade /\ Len(df) = Total)
    /\ (artists # <<>> \/ texts # <<>>) => fig # "none"
    /\ nWrites <= 1
    /\ nWrites = 1 => AllDrawn
    /\ fig = "closed" => (nWrites = 1 /\ pc = "done")
    /\ (nWrites = 1 /\ fig # "closed") => pc = "close"

\* C9 as stated: the steps happen in one fixed order, the file is written
\* exactly once, and every run that reaches the write step ends with the
\* figure released.
C9_WriteThenRelease ==
    /\ StepOrder
    /\ pc \in {"done", "aborted"} => (nWrites = 1 /\ fig = "closed")

\* C9 as amended: the steps happen in one fixed order; the file is written
\* at most once, and exactly once in a run that completes; after a write
\* that succeeds the release is the next step and ends the run; a run whose
\* write fails stops with no file written and the figure not released.
C9_WriteThenReleaseUnlessWriteFails ==
    /\ StepOrder
    /\ pc = "done" => (nWrites = 1 /\ fig = "closed")
    /\ (nWrites = 1 /\ fig # "closed") => ENABLED Close
    /\ pc = "aborted" => (nWrites = 0 /\ fig = "open" /\ AllDrawn)

C9_Witness ==
    /\ pc = "done"
    /\ nWrites = 1
    /\ fig = "closed"
    /\ AllDrawn

\* The subsample is a quarter of df to the nearest row, made of rows of df,
\* none taken twice.
SubsampleOk ==
    /\ 4 * Len(sub) - Len(df) \in -2..2
    /\ Len(df) % 4 = 0 => 4 * Len(sub) = Len(df)
    /\ \A i \in 1..Len(sub) : sub[i] \in 1..Len(df)
    /\ \A i, j \in 1..Len(sub) : i # j => sub[i] # sub[j]

====
